---- MODULE Spec2Model ----
(***************************************************************************)
(* Round lifecycle and prefetch coordination of the image pictionary game  *)
(* (App component, GuessInput, ChatPanel, StyleSelector).                  *)
(*                                                                         *)
(* One action is one browser task: an event handler or a promise / timer   *)
(* callback, run to its next real suspension point (a provider call, a     *)
(* chat request, a timer), followed by React's render and the effects of   *)
(* that render, repeated until the effects change nothing more.            *)
(*                                                                         *)
(* Strings that the code inspects character by character (concept, guess)  *)
(* are sequences of one-character strings.  null is the empty sequence     *)
(* for values that are "an object or null" (error, prefetchedGameData) and *)
(* 0 for promise handles.                                                  *)
(***************************************************************************)
EXTENDS Integers, Sequences, FiniteSets, TLC

\* ------------------------------------------------------------------ bounds
MaxRoundId == 3       \* startNewGame / handleResetGame calls explored
MaxCalls == 2         \* provider calls explored
MaxLockTimers == 2    \* wrong-guess timeouts pending at once
MaxConceptLen == 2    \* characters of a concept the provider may return

\* ------------------------------------------------------- program constants
ROUND_TIME == 30
LevelSize == 5

IDLE == "idle"
LOADING == "loading"
PLAYING == "playing"
WON == "won"
LOST == "lost"
GameStatus == {IDLE, LOADING, PLAYING, WON, LOST}

DefaultStyle == "pixel art"
STYLES == {"pixel art", "claymation"}

\* ------------------------------------------------------------- characters
UpperCase == {"A", "B"}
LowerCase == {"a", "b"}
Digits == {"7"}
Whitespace == {" "}
Punctuation == {"-"}

\* What one input event adds to the hidden input in this model: a typed
\* character, or a pasted text longer than any answer.
Typed == {<<"a">>, <<"B">>, <<"-">>, <<"a", " ", "B", "-", "a">>}

\* String.prototype.toLowerCase, one character
LowerChar(c) == CASE c = "A" -> "a" [] c = "B" -> "b" [] OTHER -> c

ToLowerCase(str) == [i \in 1..Len(str) |-> LowerChar(str[i])]

\* str.replace(/\s/g, '')
StripWhitespace(str) == SelectSeq(str, LAMBDA c : c \notin Whitespace)

\* str.replace(/[^a-zA-Z0-9]/g, '')
StripNonAlnum(str) ==
    SelectSeq(str, LAMBDA c : c \in UpperCase \cup LowerCase \cup Digits)

\* Mutant: the sanitized value is not cut to the answer's length.
Slice_All(str, n) == str

\* str.slice(0, n)
Slice(str, n) == SubSeq(str, 1, IF n < Len(str) THEN n ELSE Len(str))

\* ------------------------------------------------------- provider content
\* The concepts the provider returns in this model: "A b" and "b".
Concepts == << <<"A", " ", "b">>, <<"b">> >>
Explanations == << "why-1", "why-2" >>

\* The record getNewGameData resolves with, for a call made with style st.
Content(i, st) ==
    [concept |-> Concepts[i], explanation |-> Explanations[i],
     imageUrl |-> <<i, st>>]

\* What a rejected provider promise carries: an Error with a message, or a
\* value that is not an Error.
Failures == {[isError |-> TRUE, message |-> "quota exceeded"],
             [isError |-> FALSE, message |-> ""]}

\* e instanceof Error ? e.message : "An unknown error occurred."
ErrorText(e) == IF e.isError THEN e.message ELSE "An unknown error occurred."

\* ------------------------------------------------------------------ state
VARIABLES
    gameStatus,          \* useState: GameStatus
    imageUrl,            \* useState: <<>> for '', else <<concept index, style>>
    imageStyle,          \* useState
    answer,              \* useState: sequence of characters
    explanation,         \* useState
    guessValue,          \* useState: sequence of characters
    isWrongGuess,        \* useState
    timeLeft,            \* useState
    error,               \* useState: <<>> for null, else <<message>>
    loadingMessage,      \* useState
    score,               \* useState
    level,               \* useState
    pastConcepts,        \* useState: sequence of concepts
    prefetchedGameData,  \* useState: <<>> for null, else <<content>>
    nextGamePromiseRef,  \* useRef: 0 for null, else the id of a provider call
    roundIdRef,          \* useRef
    timerRef,            \* useRef: TRUE while it holds a live interval
    calls,               \* provider promises not yet settled, by call id
    callCount,           \* provider calls issued so far (the next id - 1)
    lockTimers,          \* setTimeout callbacks of handleIncorrectGuess pending
    chatLoading,         \* ChatPanel useState isLoading
    chatInFlight,        \* chat.sendMessage requests awaiting their response
    log,                 \* what the last step did, in order: handler calls,
                         \* notifications, slot inspections, provider
                         \* calls, settled promises, commits
    intervals,           \* setInterval timers of the timer effect not cleared
    lockRounds,          \* for each pending timeout, oldest first, the roundId
                         \* it was set in (the callback does not know it)
    origin               \* the roundId and the provider call after which
                         \* exploration starts: the bounds count from them

vars == <<gameStatus, imageUrl, imageStyle, answer, explanation, guessValue,
          isWrongGuess, timeLeft, error, loadingMessage, score, level,
          pastConcepts, prefetchedGameData, nextGamePromiseRef, roundIdRef,
          timerRef, calls, callCount, lockTimers, chatLoading, chatInFlight,
          log, intervals, lockRounds, origin>>

\* The state as one record: handlers and effects are functions on it.
Cur ==
    [gameStatus |-> gameStatus, imageUrl |-> imageUrl, imageStyle |-> imageStyle,
     answer |-> answer, explanation |-> explanation, guessValue |-> guessValue,
     isWrongGuess |-> isWrongGuess, timeLeft |-> timeLeft, error |-> error,
     loadingMessage |-> loadingMessage, score |-> score, level |-> level,
     pastConcepts |-> pastConcepts, prefetchedGameData |-> prefetchedGameData,
     nextGamePromiseRef |-> nextGamePromiseRef, roundIdRef |-> roundIdRef,
     timerRef |-> timerRef, calls |-> calls, callCount |-> callCount,
     lockTimers |-> lockTimers, chatLoading |-> chatLoading,
     chatInFlight |-> chatInFlight, log |-> <<>>, intervals |-> intervals,
     lockRounds |-> lockRounds]

Becomes(t) ==
    /\ gameStatus' = t.gameStatus
    /\ imageUrl' = t.imageUrl
    /\ imageStyle' = t.imageStyle
    /\ answer' = t.answer
    /\ explanation' = t.explanation
    /\ guessValue' = t.guessValue
    /\ isWrongGuess' = t.isWrongGuess
    /\ timeLeft' = t.timeLeft
    /\ error' = t.error
    /\ loadingMessage' = t.loadingMessage
    /\ score' = t.score
    /\ level' = t.level
    /\ pastConcepts' = t.pastConcepts
    /\ prefetchedGameData' = t.prefetchedGameData
    /\ nextGamePromiseRef' = t.nextGamePromiseRef
    /\ roundIdRef' = t.roundIdRef
    /\ timerRef' = t.timerRef
    /\ calls' = t.calls
    /\ callCount' = t.callCount
    /\ lockTimers' = t.lockTimers
    /\ intervals' = t.intervals
    /\ lockRounds' = t.lockRounds
    /\ chatLoading' = t.chatLoading
    /\ chatInFlight' = t.chatInFlight
    /\ log' = t.log

Init ==
    /\ gameStatus = IDLE
    /\ imageUrl = <<>>
    /\ imageStyle = DefaultStyle
    /\ answer = <<>>
    /\ explanation = ""
    /\ guessValue = <<>>
    /\ isWrongGuess = FALSE
    /\ timeLeft = ROUND_TIME
    /\ error = <<>>
    /\ loadingMessage = ""
    /\ score = 0
    /\ level = 1
    /\ pastConcepts = <<>>
    /\ prefetchedGameData = <<>>
    /\ nextGamePromiseRef = 0
    /\ roundIdRef = 0
    /\ timerRef = FALSE
    /\ calls = <<>>
    /\ callCount = 0
    /\ lockTimers = 0
    /\ chatLoading = FALSE
    /\ chatInFlight = 0
    /\ log = <<>>
    /\ intervals = 0
    /\ lockRounds = <<>>
    /\ origin = [roundIdRef |-> 0, callCount |-> 0]

\* ------------------------------------------------------- NotificationSink
\* ChatPanel.sendMessage for a game event: dropped while isLoading, else the
\* request goes out and isLoading is set until its response.  (isLoading is
\* read as set by earlier sends of the same step.)
SendMessage(s) ==
    IF s.chatLoading THEN s
    ELSE [s EXCEPT !.chatLoading = TRUE, !.chatInFlight = @ + 1]

\* handleGameEvent -> ChatPanel.sendGameEvent.  ev.forUser is shown at once,
\* ev.forAI goes to sendMessage.  The log entry records whether the forAI
\* text reached the AI conversation.
HandleGameEvent(s, ev) ==
    LET s1 == IF ev.forAI THEN SendMessage(s) ELSE s
        entry == [type |-> "notify", kind |-> ev.kind, forUser |-> ev.forUser,
                  forAI |-> ev.forAI, answer |-> ev.answer,
                  explanation |-> ev.explanation, level |-> ev.level,
                  forwarded |-> ev.forAI /\ ~s.chatLoading]
    IN [s1 EXCEPT !.log = Append(@, entry)]

\* The event strings of App, by what they contain.
Event(kind, forUser, forAI, ans, expl, lvl) ==
    [kind |-> kind, forUser |-> forUser, forAI |-> forAI, answer |-> ans,
     explanation |-> expl, level |-> lvl]

\* setGameStatus(st); the log keeps every status set in the step, in order.
SetGameStatus(s, st) ==
    [s EXCEPT !.gameStatus = st,
              !.log = Append(@, [type |-> "status", to |-> st])]

\* ------------------------------------------------------------ RoundTimer
\* clearInterval(timerRef.current), if it holds one; timerRef.current = null
CleanupTimer(s) ==
    [s EXCEPT !.timerRef = FALSE,
              !.intervals = IF s.timerRef THEN @ - 1 ELSE @]

\* ------------------------------------------------------- ContentProvider
\* getNewGameData(excluded, style): a new pending promise.  awaiter is the
\* roundId of the startNewGame call awaiting it (0: none); prefetch tells
\* whether prefetchNextRound attached its then/catch callbacks.
GetNewGameData(s, excluded, style, awaiter, prefetch) ==
    LET id == s.callCount + 1
        call == [style |-> style, awaiter |-> awaiter, prefetch |-> prefetch]
    IN [s EXCEPT !.callCount = id,
                 !.calls = (id :> call) @@ @,
                 !.log = Append(@, [type |-> "provider", id |-> id,
                                    excluded |-> excluded, style |-> style,
                                    prefetch |-> prefetch])]

\* ---------------------------------------------------------- round endings
\* In the operators below c is the render whose closure the callback holds
\* (the useState values it reads) and r is the live state it writes to;
\* refs are read from r.

\* Mutant: levels counted from 0.
NewLevel_FromZero(newScore) == newScore \div LevelSize

\* Math.floor(newScore / 5) + 1
NewLevel(newScore) == (newScore \div LevelSize) + 1

\* Mutant: the level-up notification comes after the event for the AI.
HandleCorrectGuess_LevelUpLast(c, r) ==
    IF c.gameStatus # PLAYING THEN r
    ELSE
      LET newScore == c.score + 1
          oldLevel == c.level
          newLevel == NewLevel(newScore)
          r1 == CleanupTimer([SetGameStatus(r, WON) EXCEPT !.score = newScore])
          r2 == HandleGameEvent(r1, Event("correct", TRUE, FALSE, <<>>, "", 0))
          r3 == HandleGameEvent(r2, Event("guessed", FALSE, TRUE, c.answer, c.explanation,
                                          IF newLevel > oldLevel THEN newLevel ELSE 0))
      IN IF newLevel > oldLevel
         THEN HandleGameEvent([r3 EXCEPT !.level = newLevel],
                              Event("level-up", TRUE, FALSE, <<>>, "", newLevel))
         ELSE r3

\* Mutant: the event for the AI leaves out the explanation.
HandleCorrectGuess_NoExplanation(c, r) ==
    IF c.gameStatus # PLAYING THEN r
    ELSE
      LET newScore == c.score + 1
          r1 == CleanupTimer([SetGameStatus(r, WON) EXCEPT !.score = newScore])
          r2 == HandleGameEvent(r1, Event("correct", TRUE, FALSE, <<>>, "", 0))
      IN HandleGameEvent(r2, Event("guessed", FALSE, TRUE, c.answer, "", 0))

HandleCorrectGuess(c, r) ==
    IF c.gameStatus # PLAYING THEN r
    ELSE
      LET newScore == c.score + 1
          oldLevel == c.level
          newLevel == NewLevel(newScore)
          r1 == CleanupTimer([SetGameStatus(r, WON) EXCEPT !.score = newScore])
          r2 == HandleGameEvent(r1, Event("correct", TRUE, FALSE, <<>>, "", 0))
          r3 == IF newLevel > oldLevel
                THEN HandleGameEvent([r2 EXCEPT !.level = newLevel],
                                     Event("level-up", TRUE, FALSE, <<>>, "", newLevel))
                ELSE r2
      IN HandleGameEvent(r3, Event("guessed", FALSE, TRUE, c.answer, c.explanation,
                                   IF newLevel > oldLevel THEN newLevel ELSE 0))

HandleIncorrectGuess(r) ==
    [r EXCEPT !.isWrongGuess = TRUE, !.lockTimers = @ + 1,
              !.lockRounds = Append(@, r.roundIdRef)]

\* Mutant: the timeout forgets setGameStatus(LOST).
HandleTimeUp_StaysPlaying(c, r) ==
    HandleGameEvent(CleanupTimer(r),
                    Event("time-up", TRUE, TRUE, c.answer, c.explanation, 0))

HandleTimeUp(c, r) ==
    HandleGameEvent(CleanupTimer(SetGameStatus(r, LOST)),
                    Event("time-up", TRUE, TRUE, c.answer, c.explanation, 0))

\* ---------------------------------------------------------------- prefetch
\* Mutant: only the answer of the round that ended is excluded.
PrefetchNextRound_AnswerOnly(c, r) ==
    LET r0 == [r EXCEPT !.log = Append(@, [type |-> "call",
                                           op |-> "prefetchNextRound",
                                           handle |-> r.nextGamePromiseRef,
                                           ready |-> r.prefetchedGameData])]
        conceptsToExclude == IF c.answer # <<>> THEN <<c.answer>> ELSE <<>>
    IN IF r.nextGamePromiseRef # 0 THEN r0
       ELSE LET r1 == GetNewGameData(r0, conceptsToExclude, c.imageStyle, 0, TRUE)
            IN [r1 EXCEPT !.nextGamePromiseRef = r1.callCount]

\* Mutant: the slot is not inspected.
PrefetchNextRound_NoGuard(c, r) ==
    LET r0 == [r EXCEPT !.log = Append(@, [type |-> "call",
                                           op |-> "prefetchNextRound",
                                           handle |-> r.nextGamePromiseRef,
                                           ready |-> r.prefetchedGameData])]
        conceptsToExclude ==
            IF c.answer # <<>> THEN Append(c.pastConcepts, c.answer)
            ELSE c.pastConcepts
        r1 == GetNewGameData(r0, conceptsToExclude, c.imageStyle, 0, TRUE)
    IN [r1 EXCEPT !.nextGamePromiseRef = r1.callCount]

PrefetchNextRound(c, r) ==
    LET r0 == [r EXCEPT !.log = Append(@, [type |-> "call",
                                           op |-> "prefetchNextRound",
                                           handle |-> r.nextGamePromiseRef,
                                           ready |-> r.prefetchedGameData])]
    IN IF r.nextGamePromiseRef # 0 THEN r0
       ELSE
         LET conceptsToExclude ==
                 IF c.answer # <<>> THEN Append(c.pastConcepts, c.answer)
                 ELSE c.pastConcepts
             r1 == GetNewGameData(r0, conceptsToExclude, c.imageStyle, 0, TRUE)
         IN [r1 EXCEPT !.nextGamePromiseRef = r1.callCount]

\* ----------------------------------------------------------------- effects
\* Each effect runs after render c when one of its dependencies differs from
\* the previous render p.

\* Mutant: a style change leaves the slot alone.
StyleEffect_Off(p, c, r) == r

\* useEffect(..., [imageStyle])
StyleEffect(p, c, r) ==
    IF c.imageStyle # p.imageStyle
       /\ (c.prefetchedGameData # <<>> \/ r.nextGamePromiseRef # 0)
    THEN [r EXCEPT !.prefetchedGameData = <<>>, !.nextGamePromiseRef = 0,
                   !.log = Append(@, [type |-> "slot", kind |-> "invalidated"])]
    ELSE r

\* Mutant: the effect returns no cleanup function.
TimerEffect_NoCleanup(p, c, r) ==
    IF c.gameStatus = p.gameStatus /\ c.timeLeft = p.timeLeft
       /\ c.answer = p.answer /\ c.explanation = p.explanation
    THEN r
    ELSE
      IF c.gameStatus = PLAYING /\ c.timeLeft > 0
      THEN [r EXCEPT !.timerRef = TRUE, !.intervals = @ + 1]
      ELSE IF c.timeLeft <= 0 /\ c.gameStatus = PLAYING
           THEN HandleTimeUp(c, r)
           ELSE r

\* Mutant: the interval is armed whatever timeLeft is, and time never runs out.
TimerEffect_ArmsAtZero(p, c, r) ==
    IF c.gameStatus = p.gameStatus /\ c.timeLeft = p.timeLeft
       /\ c.answer = p.answer /\ c.explanation = p.explanation
    THEN r
    ELSE
      LET r1 == CleanupTimer(r)
      IN IF c.gameStatus = PLAYING
         THEN [r1 EXCEPT !.timerRef = TRUE, !.intervals = @ + 1]
         ELSE r1

\* useEffect(..., [gameStatus, timeLeft, handleTimeUp]): the cleanup of the
\* last run clears the interval timerRef holds, then the effect runs.
TimerEffect(p, c, r) ==
    IF c.gameStatus = p.gameStatus /\ c.timeLeft = p.timeLeft
       /\ c.answer = p.answer /\ c.explanation = p.explanation
    THEN r
    ELSE
      LET r1 == CleanupTimer(r)
      IN IF c.gameStatus = PLAYING /\ c.timeLeft > 0
         THEN [r1 EXCEPT !.timerRef = TRUE, !.intervals = @ + 1]
         ELSE IF c.timeLeft <= 0 /\ c.gameStatus = PLAYING
              THEN HandleTimeUp(c, r1)
              ELSE r1

\* Mutant: the comparison is case-sensitive.
GuessMatches_CaseSensitive(guess, answerSanitized) == guess = answerSanitized

\* guessValue.toLowerCase() === answerSanitized.toLowerCase()
GuessMatches(guess, answerSanitized) ==
    ToLowerCase(guess) = ToLowerCase(answerSanitized)

\* useEffect(..., [guessValue, answer, gameStatus, handleCorrectGuess,
\*                 handleIncorrectGuess, isWrongGuess])
GuessEffect(p, c, r) ==
    IF c.guessValue = p.guessValue /\ c.answer = p.answer
       /\ c.gameStatus = p.gameStatus /\ c.isWrongGuess = p.isWrongGuess
       /\ c.explanation = p.explanation /\ c.score = p.score
       /\ c.level = p.level
    THEN r
    ELSE IF c.gameStatus # PLAYING \/ c.answer = <<>> \/ c.isWrongGuess THEN r
    ELSE
      LET answerSanitized == StripWhitespace(c.answer)
      IN IF Len(c.guessValue) = Len(answerSanitized)
         THEN IF GuessMatches(c.guessValue, answerSanitized)
              THEN HandleCorrectGuess(c, r)
              ELSE HandleIncorrectGuess(r)
         ELSE r

\* useEffect(..., [gameStatus, prefetchNextRound])
PrefetchEffect(p, c, r) ==
    IF c.gameStatus = p.gameStatus /\ c.pastConcepts = p.pastConcepts
       /\ c.answer = p.answer /\ c.imageStyle = p.imageStyle
    THEN r
    ELSE IF c.gameStatus = WON \/ c.gameStatus = LOST
         THEN PrefetchNextRound(c, r)
         ELSE r

\* (Each effect's result is bound through a singleton set, so that it is
\* computed once.)
RunEffects(p, c) ==
    CHOOSE s4 \in
        {PrefetchEffect(p, c, s3) : s3 \in
            {GuessEffect(p, c, s2) : s2 \in
                {TimerEffect(p, c, s1) : s1 \in {StyleEffect(p, c, c)}}}} : TRUE

\* The useState values of App: a change of any of them renders again.
ReactState(s) ==
    <<s.gameStatus, s.imageUrl, s.imageStyle, s.answer, s.explanation,
      s.guessValue, s.isWrongGuess, s.timeLeft, s.error, s.loadingMessage,
      s.score, s.level, s.pastConcepts, s.prefetchedGameData>>

\* Render after a task that turned render p into c, and run effects until
\* they set no more state.
RECURSIVE Settle(_, _)
Settle(p, c) ==
    IF ReactState(c) = ReactState(p) THEN c
    ELSE CHOOSE t \in {Settle(c, n) : n \in {RunEffects(p, c)}} : TRUE

\* ------------------------------------------------------------- startNewGame
\* Mutant: the round identity is never compared.
IsStale_Never(r, roundId) == FALSE

\* !isMounted.current || roundIdRef.current !== roundId
IsStale(r, roundId) == r.roundIdRef # roundId

\* Mutant: the commit forgets setTimeLeft(ROUND_TIME).
HandleGameData_KeepsTime(r, roundId, gameData) ==
    IF IsStale(r, roundId) THEN r
    ELSE
      LET r1 == [r EXCEPT !.imageUrl = gameData.imageUrl,
                          !.answer = gameData.concept,
                          !.explanation = gameData.explanation,
                          !.pastConcepts = Append(@, gameData.concept),
                          !.log = Append(@, [type |-> "commit",
                                             roundId |-> roundId,
                                             data |-> gameData])]
          r2 == HandleGameEvent(r1, Event("kickoff", FALSE, TRUE, gameData.concept,
                                          gameData.explanation, 0))
      IN SetGameStatus(r2, PLAYING)

\* Mutant: the kickoff event is sent before the round identity is compared.
HandleGameData_KickoffFirst(r, roundId, gameData) ==
    LET r0 == HandleGameEvent(r, Event("kickoff", FALSE, TRUE, gameData.concept,
                                       gameData.explanation, 0))
    IN IF IsStale(r, roundId) THEN r0
       ELSE
         LET r1 == [r0 EXCEPT !.imageUrl = gameData.imageUrl,
                              !.answer = gameData.concept,
                              !.explanation = gameData.explanation,
                              !.timeLeft = ROUND_TIME,
                              !.pastConcepts = Append(@, gameData.concept),
                              !.log = Append(@, [type |-> "commit",
                                                 roundId |-> roundId,
                                                 data |-> gameData])]
         IN SetGameStatus(r1, PLAYING)

\* Mutant: the commit sets pastConcepts to the new concept alone.
HandleGameData_ForgetsConcepts(r, roundId, gameData) ==
    IF IsStale(r, roundId) THEN r
    ELSE
      LET r1 == [r EXCEPT !.imageUrl = gameData.imageUrl,
                          !.answer = gameData.concept,
                          !.explanation = gameData.explanation,
                          !.timeLeft = ROUND_TIME,
                          !.pastConcepts = <<gameData.concept>>,
                          !.log = Append(@, [type |-> "commit",
                                             roundId |-> roundId,
                                             data |-> gameData])]
          r2 == HandleGameEvent(r1, Event("kickoff", FALSE, TRUE, gameData.concept,
                                          gameData.explanation, 0))
      IN SetGameStatus(r2, PLAYING)

HandleGameData(r, roundId, gameData) ==
    IF IsStale(r, roundId) THEN r
    ELSE
      LET r1 == [r EXCEPT !.imageUrl = gameData.imageUrl,
                          !.answer = gameData.concept,
                          !.explanation = gameData.explanation,
                          !.timeLeft = ROUND_TIME,
                          !.pastConcepts = Append(@, gameData.concept),
                          !.log = Append(@, [type |-> "commit",
                                             roundId |-> roundId,
                                             data |-> gameData])]
          r2 == HandleGameEvent(r1, Event("kickoff", FALSE, TRUE, gameData.concept,
                                          gameData.explanation, 0))
      IN SetGameStatus(r2, PLAYING)

\* The continuation of startNewGame after `await promiseToAwait` resolved.
OnFetchResolved(r, roundId, data) ==
    IF IsStale(r, roundId) THEN r ELSE HandleGameData(r, roundId, data)

\* Mutant: the catch block forgets setGameStatus(IDLE).
OnFetchRejected_StaysLoading(r, roundId, e) ==
    IF IsStale(r, roundId) THEN r
    ELSE [r EXCEPT !.error = <<ErrorText(e)>>,
                   !.prefetchedGameData = <<>>,
                   !.nextGamePromiseRef = 0]

\* The catch block of startNewGame.
OnFetchRejected(r, roundId, e) ==
    IF IsStale(r, roundId) THEN r
    ELSE [SetGameStatus(r, IDLE) EXCEPT !.error = <<ErrorText(e)>>,
                                        !.prefetchedGameData = <<>>,
                                        !.nextGamePromiseRef = 0]

\* Mutant: ready content is consumed without being taken out of the slot.
ResolveContent_KeepsReady(c, r, roundId) ==
    IF c.prefetchedGameData # <<>>
    THEN LET data == c.prefetchedGameData[1]
             r1 == [r EXCEPT !.loadingMessage = "generating",
                             !.log = Append(@, [type |-> "slot", kind |-> "ready"])]
         IN OnFetchResolved(r1, roundId, data)
    ELSE IF r.nextGamePromiseRef # 0
    THEN LET id == r.nextGamePromiseRef
         IN [r EXCEPT !.calls = IF id \in DOMAIN @
                                 THEN [@ EXCEPT ![id].awaiter = roundId]
                                 ELSE @,
                      !.nextGamePromiseRef = 0,
                      !.loadingMessage = "generating",
                      !.log = Append(@, [type |-> "slot", kind |-> "pending",
                                         id |-> id])]
    ELSE LET r1 == [r EXCEPT !.log = Append(@, [type |-> "slot", kind |-> "empty"])]
             r2 == GetNewGameData(r1, c.pastConcepts, c.imageStyle, roundId, FALSE)
         IN [r2 EXCEPT !.loadingMessage = "generating"]

\* Mutant: the pending handle stays in the slot while startNewGame awaits it.
ResolveContent_KeepsHandle(c, r, roundId) ==
    IF c.prefetchedGameData # <<>>
    THEN LET data == c.prefetchedGameData[1]
             r1 == [r EXCEPT !.prefetchedGameData = <<>>,
                             !.nextGamePromiseRef = 0,
                             !.loadingMessage = "generating",
                             !.log = Append(@, [type |-> "slot", kind |-> "ready"])]
         IN OnFetchResolved(r1, roundId, data)
    ELSE IF r.nextGamePromiseRef # 0
    THEN LET id == r.nextGamePromiseRef
         IN [r EXCEPT !.calls = IF id \in DOMAIN @
                                 THEN [@ EXCEPT ![id].awaiter = roundId]
                                 ELSE @,
                      !.loadingMessage = "generating",
                      !.log = Append(@, [type |-> "slot", kind |-> "pending",
                                         id |-> id])]
    ELSE LET r1 == [r EXCEPT !.log = Append(@, [type |-> "slot", kind |-> "empty"])]
             r2 == GetNewGameData(r1, c.pastConcepts, c.imageStyle, roundId, FALSE)
         IN [r2 EXCEPT !.loadingMessage = "generating"]

\* The try block of startNewGame up to `await promiseToAwait`: c is the
\* closure of the call, r the live state.
ResolveContent(c, r, roundId) ==
    IF c.prefetchedGameData # <<>>
    THEN LET data == c.prefetchedGameData[1]
             r1 == [r EXCEPT !.prefetchedGameData = <<>>,
                             !.nextGamePromiseRef = 0,
                             !.loadingMessage = "generating",
                             !.log = Append(@, [type |-> "slot", kind |-> "ready"])]
         IN OnFetchResolved(r1, roundId, data)
    ELSE IF r.nextGamePromiseRef # 0
    THEN LET id == r.nextGamePromiseRef
         IN [r EXCEPT !.calls = IF id \in DOMAIN @
                                 THEN [@ EXCEPT ![id].awaiter = roundId]
                                 ELSE @,
                      !.nextGamePromiseRef = 0,
                      !.loadingMessage = "generating",
                      !.log = Append(@, [type |-> "slot", kind |-> "pending",
                                         id |-> id])]
    ELSE LET r1 == [r EXCEPT !.log = Append(@, [type |-> "slot", kind |-> "empty"])]
             r2 == GetNewGameData(r1, c.pastConcepts, c.imageStyle, roundId, FALSE)
         IN [r2 EXCEPT !.loadingMessage = "generating"]

\* Mutant: startNewGame forgets setImageUrl('').
StartNewGame_KeepsImage(c) ==
    LET r0 == [c EXCEPT !.roundIdRef = @ + 1,
                        !.log = Append(@, [type |-> "call", op |-> "startNewGame",
                                           status |-> c.gameStatus])]
        roundId == r0.roundIdRef
    IN IF c.gameStatus = LOADING THEN r0
       ELSE
         LET wasRoundFinished == c.gameStatus = WON \/ c.gameStatus = LOST
             isFirstGame == Len(c.pastConcepts) = 0
             r1 == [SetGameStatus(r0, LOADING) EXCEPT !.loadingMessage = "thinking"]
             r2 == IF wasRoundFinished
                   THEN HandleGameEvent(r1, Event("next-round", TRUE, FALSE, <<>>, "", 0))
                   ELSE r1
             r3 == [CleanupTimer(r2) EXCEPT !.error = <<>>,
                                            !.guessValue = <<>>,
                                            !.isWrongGuess = FALSE,
                                            !.log = Append(@, [type |-> "clear"])]
             r4 == IF isFirstGame
                   THEN HandleGameEvent(r3, Event("starting", TRUE, FALSE, <<>>, "", 1))
                   ELSE r3
             r5 == HandleGameEvent(r4, Event("thinking", FALSE, TRUE, <<>>, "", 0))
         IN ResolveContent(c, r5, roundId)

StartNewGame(c) ==
    LET r0 == [c EXCEPT !.roundIdRef = @ + 1,
                        !.log = Append(@, [type |-> "call", op |-> "startNewGame",
                                           status |-> c.gameStatus])]
        roundId == r0.roundIdRef
    IN IF c.gameStatus = LOADING THEN r0
       ELSE
         LET wasRoundFinished == c.gameStatus = WON \/ c.gameStatus = LOST
             isFirstGame == Len(c.pastConcepts) = 0
             r1 == [SetGameStatus(r0, LOADING) EXCEPT !.loadingMessage = "thinking"]
             r2 == IF wasRoundFinished
                   THEN HandleGameEvent(r1, Event("next-round", TRUE, FALSE, <<>>, "", 0))
                   ELSE r1
             r3 == [CleanupTimer(r2) EXCEPT !.error = <<>>,
                                            !.guessValue = <<>>,
                                            !.isWrongGuess = FALSE,
                                            !.imageUrl = <<>>,
                                            !.log = Append(@, [type |-> "clear"])]
             r4 == IF isFirstGame
                   THEN HandleGameEvent(r3, Event("starting", TRUE, FALSE, <<>>, "", 1))
                   ELSE r3
             r5 == HandleGameEvent(r4, Event("thinking", FALSE, TRUE, <<>>, "", 0))
         IN ResolveContent(c, r5, roundId)

\* ---------------------------------------------------------- handleResetGame
\* Mutant: handleResetGame keeps the round identity.
HandleResetGame_SameRound(c) ==
    LET r1 == CleanupTimer([c EXCEPT !.log = Append(@, [type |-> "call",
                                                        op |-> "handleResetGame",
                                                        status |-> c.gameStatus])])
    IN [SetGameStatus(r1, IDLE) EXCEPT !.imageUrl = <<>>, !.answer = <<>>,
                  !.explanation = "", !.guessValue = <<>>,
                  !.isWrongGuess = FALSE, !.timeLeft = ROUND_TIME,
                  !.error = <<>>, !.loadingMessage = "",
                  !.pastConcepts = <<>>, !.score = 0, !.level = 1,
                  !.chatLoading = FALSE]

\* Mutant: handleResetGame forgets setScore(0).
HandleResetGame_KeepsScore(c) ==
    LET r1 == CleanupTimer([c EXCEPT !.roundIdRef = @ + 1,
                                     !.log = Append(@, [type |-> "call",
                                                        op |-> "handleResetGame",
                                                        status |-> c.gameStatus])])
    IN [SetGameStatus(r1, IDLE) EXCEPT !.imageUrl = <<>>, !.answer = <<>>,
                  !.explanation = "", !.guessValue = <<>>,
                  !.isWrongGuess = FALSE, !.timeLeft = ROUND_TIME,
                  !.error = <<>>, !.loadingMessage = "",
                  !.pastConcepts = <<>>, !.level = 1, !.chatLoading = FALSE]

\* Mutant: the reset forgets setPastConcepts([]).
HandleResetGame_KeepsConcepts(c) ==
    LET r1 == CleanupTimer([c EXCEPT !.roundIdRef = @ + 1,
                                     !.log = Append(@, [type |-> "call",
                                                        op |-> "handleResetGame",
                                                        status |-> c.gameStatus])])
    IN [SetGameStatus(r1, IDLE) EXCEPT !.imageUrl = <<>>, !.answer = <<>>,
                  !.explanation = "", !.guessValue = <<>>,
                  !.isWrongGuess = FALSE, !.timeLeft = ROUND_TIME,
                  !.error = <<>>, !.loadingMessage = "", !.score = 0,
                  !.level = 1, !.chatLoading = FALSE]

HandleResetGame(c) ==
    LET r1 == CleanupTimer([c EXCEPT !.roundIdRef = @ + 1,
                                     !.log = Append(@, [type |-> "call",
                                                        op |-> "handleResetGame",
                                                        status |-> c.gameStatus])])
    IN [SetGameStatus(r1, IDLE) EXCEPT
                  !.imageUrl = <<>>,
                  !.answer = <<>>,
                  !.explanation = "",
                  !.guessValue = <<>>,
                  !.isWrongGuess = FALSE,
                  !.timeLeft = ROUND_TIME,
                  !.error = <<>>,
                  !.loadingMessage = "",
                  !.pastConcepts = <<>>,
                  !.score = 0,
                  !.level = 1,
                  !.chatLoading = FALSE]       \* ChatPanel.handleReset

\* -------------------------------------------------------------- guess input
\* App.handleGuessChange
HandleGuessChange(c, value) ==
    IF c.isWrongGuess THEN c ELSE [c EXCEPT !.guessValue = value]

\* Mutant: handleInput checks only the wrong-guess flag, not the status.
HandleInput_NoStatusGuard(c, rawValue) ==
    LET answerSanitizedLength == Len(StripWhitespace(c.answer))
        sanitizedValue == StripNonAlnum(rawValue)
        truncatedValue == Slice(sanitizedValue, answerSanitizedLength)
        r0 == [c EXCEPT !.log = Append(@, [type |-> "call", op |-> "handleInput",
                                           status |-> c.gameStatus,
                                           locked |-> c.isWrongGuess])]
    IN IF c.isWrongGuess THEN r0
       ELSE HandleGuessChange(r0, truncatedValue)

\* GuessInput.handleInput with the input element's value rawValue
HandleInput(c, rawValue) ==
    LET answerSanitizedLength == Len(StripWhitespace(c.answer))
        isDisabled == c.gameStatus \in {IDLE, LOADING, WON, LOST}
        r0 == [c EXCEPT !.log = Append(@, [type |-> "call", op |-> "handleInput",
                                           status |-> c.gameStatus,
                                           locked |-> c.isWrongGuess])]
    IN IF isDisabled \/ c.isWrongGuess THEN r0
       ELSE LET sanitizedValue == StripNonAlnum(rawValue)
                truncatedValue == Slice(sanitizedValue, answerSanitizedLength)
            IN HandleGuessChange(r0, truncatedValue)

\* ------------------------------------------------------------------ actions
\* The bounds cut the exploration off; they are not part of the program.
Within(t) ==
    /\ t.roundIdRef <= origin.roundIdRef + MaxRoundId
    /\ t.callCount <= origin.callCount + MaxCalls
    /\ t.lockTimers <= MaxLockTimers

Step(t) == \E u \in {t} : Within(u) /\ Becomes(u) /\ UNCHANGED origin

\* GamePanel "Start game" / "Try Again", ChatPanel "Next": startNewGame()
OnStartNewGame == Step(Settle(Cur, StartNewGame(Cur)))

\* ChatPanel "Restart game": handleResetGame()
OnResetGame == Step(Settle(Cur, HandleResetGame(Cur)))

\* The values an input event can leave in the hidden input: the guess with
\* characters typed or pasted after it, or with its last character deleted.
RawValues ==
    {guessValue \o x : x \in Typed}
    \cup (IF guessValue = <<>> THEN {}
          ELSE {SubSeq(guessValue, 1, Len(guessValue) - 1)})

\* GuessInput onInput
OnInput ==
    \E rawValue \in RawValues :
        Step(Settle(Cur, HandleInput(Cur, rawValue)))

\* Mutant: the selector is never disabled.
OnStyleChange_Always ==
    /\ \E style \in STYLES \ {imageStyle} :
           Step(Settle(Cur, [Cur EXCEPT !.imageStyle = style]))

\* StyleSelector onChange; the select and the text input are disabled while
\* the game is playing or loading.
OnStyleChange ==
    /\ ~(gameStatus = PLAYING \/ gameStatus = LOADING)
    /\ \E style \in STYLES \ {imageStyle} :
           Step(Settle(Cur, [Cur EXCEPT !.imageStyle = style]))

\* The setInterval callback of the timer effect: setTimeLeft(prev => prev - 1),
\* then the render and its effects (none of which sets timeLeft).
Tick ==
    /\ timerRef
    /\ timeLeft' = timeLeft - 1
    /\ \E c \in {Cur} : \E r \in {[c EXCEPT !.timeLeft = @ - 1]} :
           Step(Settle(c, r))

\* The setTimeout callback of handleIncorrectGuess
LockTimeout ==
    /\ lockTimers > 0
    /\ Step(Settle(Cur, [Cur EXCEPT !.lockTimers = @ - 1,
                                    !.lockRounds = Tail(@),
                                    !.guessValue = <<>>,
                                    !.isWrongGuess = FALSE]))

Without(f, id) == [k \in DOMAIN f \ {id} |-> f[k]]

\* A provider promise resolves: the then-callback of prefetchNextRound (if
\* attached), then the startNewGame call awaiting it (if any).
Resolved(c, id, data) ==
    LET call == c.calls[id]
        r0 == [c EXCEPT !.calls = Without(@, id),
                        !.log = Append(@, [type |-> "settled", id |-> id,
                                           ok |-> TRUE, awaiter |-> call.awaiter,
                                           prefetch |-> call.prefetch,
                                           data |-> data])]
        r1 == IF call.prefetch /\ r0.nextGamePromiseRef = id
              THEN [r0 EXCEPT !.prefetchedGameData = <<data>>]
              ELSE r0
    IN IF call.awaiter # 0 THEN OnFetchResolved(r1, call.awaiter, data) ELSE r1

\* Mutant: the catch-callback of prefetchNextRound leaves the handle in the
\* slot.
Rejected_KeepsHandle(c, id, e) ==
    LET call == c.calls[id]
        r0 == [c EXCEPT !.calls = Without(@, id),
                        !.log = Append(@, [type |-> "settled", id |-> id,
                                           ok |-> FALSE, awaiter |-> call.awaiter,
                                           prefetch |-> call.prefetch])]
    IN IF call.awaiter # 0 THEN OnFetchRejected(r0, call.awaiter, e) ELSE r0

\* A provider promise rejects: the catch block of the startNewGame call
\* awaiting it (if any), then the catch-callback of prefetchNextRound.
Rejected(c, id, e) ==
    LET call == c.calls[id]
        r0 == [c EXCEPT !.calls = Without(@, id),
                        !.log = Append(@, [type |-> "settled", id |-> id,
                                           ok |-> FALSE, awaiter |-> call.awaiter,
                                           prefetch |-> call.prefetch])]
        r1 == IF call.awaiter # 0 THEN OnFetchRejected(r0, call.awaiter, e) ELSE r0
    IN IF call.prefetch /\ r1.nextGamePromiseRef = id
       THEN [r1 EXCEPT !.nextGamePromiseRef = 0]
       ELSE r1

ProviderResolves ==
    \E id \in DOMAIN calls, i \in 1..Len(Concepts) :
        Step(Settle(Cur, Resolved(Cur, id, Content(i, calls[id].style))))

ProviderRejects ==
    \E id \in DOMAIN calls, e \in Failures :
        Step(Settle(Cur, Rejected(Cur, id, e)))

\* ChatPanel handleSubmit / handleClue: sendMessage(input, true)
OnUserMessage ==
    /\ ~chatLoading
    /\ Step(SendMessage(Cur))

\* Mutant: setIsLoading(false) after the response only, not in finally.
ChatSettled_NoFinally(s, ok) ==
    IF ok THEN [s EXCEPT !.chatInFlight = @ - 1, !.chatLoading = FALSE]
    ELSE [s EXCEPT !.chatInFlight = @ - 1,
                   !.log = Append(@, [type |-> "chat", ok |-> FALSE])]

\* chat.sendMessage settles inside sendMessage: the response, or the error
\* caught, becomes a chat message; finally setIsLoading(false).
ChatSettled(s, ok) ==
    LET s1 == [s EXCEPT !.chatInFlight = @ - 1, !.chatLoading = FALSE]
    IN IF ok THEN s1
       ELSE [s1 EXCEPT !.log = Append(@, [type |-> "chat", ok |-> FALSE])]

ChatResponds ==
    /\ chatInFlight > 0
    /\ Step(ChatSettled(Cur, TRUE))

ChatRejects ==
    /\ chatInFlight > 0
    /\ Step(ChatSettled(Cur, FALSE))

\* The steps of App. ChatPanel's own steps (OnUserMessage, ChatResponds,
\* ChatRejects) change only chatLoading and chatInFlight, which no handler
\* of App reads, and are left out of Next; UINext has them.
Next ==
    \/ OnStartNewGame
    \/ OnResetGame
    \/ OnInput
    \/ OnStyleChange
    \/ Tick
    \/ LockTimeout
    \/ ProviderResolves
    \/ ProviderRejects

Spec == Init /\ [][Next]_vars

\* The timer ticks for as long as its interval is live.
FairSpec == Spec /\ WF_vars(Tick)

\* Every provider call completes, every timer that is set fires.
SettlingSpec ==
    /\ Spec
    /\ WF_vars(ProviderResolves \/ ProviderRejects)
    /\ WF_vars(Tick)
    /\ WF_vars(LockTimeout)

\* ------------------------------------------------------- the rendered page
\* The page offers startNewGame only where a button for it is rendered, and
\* handleResetGame only while the chat is not waiting for a response.

\* GamePanel "Start game" / "Try Again": rendered in status Idle only
OnStartClick ==
    /\ gameStatus = IDLE
    /\ OnStartNewGame

\* Mutant: "Next" is rendered in every status.
OnNextClick_Always ==
    /\ OnStartNewGame

\* ChatPanel "Next": rendered when the round is over
OnNextClick ==
    /\ gameStatus = WON \/ gameStatus = LOST
    /\ OnStartNewGame

\* ChatPanel "Restart game": disabled={isLoading}
OnResetClick ==
    /\ ~chatLoading
    /\ OnResetGame

UINext ==
    \/ OnStartClick
    \/ OnNextClick
    \/ OnResetClick
    \/ OnInput
    \/ OnStyleChange
    \/ Tick
    \/ LockTimeout
    \/ ProviderResolves
    \/ ProviderRejects
    \/ OnUserMessage
    \/ ChatResponds
    \/ ChatRejects

UISpec == Init /\ [][UINext]_vars

\* ------------------------------------------------------ a session under way
\* The level changes at the fifth win, and a failed prefetch is followed by a
\* third provider call: both further than the bounds let Spec go.  LateInit
\* is the state Spec is in after four rounds, each started with "Next" and
\* fed by the prefetch of the round before, when the fourth has just been won
\* with guess "B": status Won, score 4, and the prefetch for the fifth round
\* (provider call 5) pending in the slot.  That call is the first of the
\* MaxCalls calls explored from here.
LateInit ==
    /\ gameStatus = WON
    /\ imageUrl = <<2, DefaultStyle>>
    /\ imageStyle = DefaultStyle
    /\ answer = Concepts[2]
    /\ explanation = Explanations[2]
    /\ guessValue = <<"B">>
    /\ isWrongGuess = FALSE
    /\ timeLeft = ROUND_TIME
    /\ error = <<>>
    /\ loadingMessage = "generating"
    /\ score = 4
    /\ level = 1
    /\ pastConcepts = <<Concepts[1], Concepts[2], Concepts[1], Concepts[2]>>
    /\ prefetchedGameData = <<>>
    /\ nextGamePromiseRef = 5
    /\ roundIdRef = 4
    /\ timerRef = FALSE
    /\ calls = (5 :> [style |-> DefaultStyle, awaiter |-> 0, prefetch |-> TRUE])
    /\ callCount = 5
    /\ lockTimers = 0
    /\ chatLoading = TRUE
    /\ chatInFlight = 1
    /\ log = << [type |-> "call", op |-> "handleInput", status |-> PLAYING,
                 locked |-> FALSE],
                [type |-> "status", to |-> WON],
                [type |-> "notify", kind |-> "correct", forUser |-> TRUE,
                 forAI |-> FALSE, answer |-> <<>>, explanation |-> "",
                 level |-> 0, forwarded |-> FALSE],
                [type |-> "notify", kind |-> "guessed", forUser |-> FALSE,
                 forAI |-> TRUE, answer |-> Concepts[2],
                 explanation |-> Explanations[2], level |-> 0,
                 forwarded |-> FALSE],
                [type |-> "call", op |-> "prefetchNextRound", handle |-> 0,
                 ready |-> <<>>],
                [type |-> "provider", id |-> 5,
                 excluded |-> <<Concepts[1], Concepts[2], Concepts[1],
                                Concepts[2], Concepts[2]>>,
                 style |-> DefaultStyle, prefetch |-> TRUE] >>
    /\ intervals = 0
    /\ lockRounds = <<>>
    /\ origin = [roundIdRef |-> 4, callCount |-> 4]

LateSpec == LateInit /\ [][Next]_vars

\* ------------------------------------------- prefetchNextRound as operation
\* The page calls prefetchNextRound from its effect only, when a round ends
\* or the style changes after it, and by then the slot is empty.  Here the
\* effect may run again at any moment while the round is over, so that
\* prefetchNextRound meets an occupied slot; PrefetchSpec starts where the
\* slot is occupied.
OnPrefetchNextRound ==
    /\ gameStatus = WON \/ gameStatus = LOST
    /\ Step(Settle(Cur, PrefetchNextRound(Cur, Cur)))

PrefetchNext ==
    \/ Next
    \/ OnPrefetchNextRound

PrefetchSpec == LateInit /\ [][PrefetchNext]_vars

\* ------------------------------------------------ a round with any concept
\* The provider is free in the concept it returns.  Here the first round of a
\* session is played with any string of 1..MaxConceptLen characters as its
\* concept: upper and lower case letters, digits, whitespace, punctuation.
ProviderChars == {"A", "b", "7", " ", "-"}

\* The strings over chars of length 0..n
Strings(chars, n) == UNION {[1..k -> chars] : k \in 0..n}

ProviderConcepts == Strings(ProviderChars, MaxConceptLen) \ {<<>>}

\* The provider call a round is waiting for resolves, with any concept.
ProviderResolvesAny ==
    \E id \in DOMAIN calls, concept \in ProviderConcepts :
        /\ calls[id].awaiter # 0
        /\ \E data \in {[concept |-> concept, explanation |-> "why",
                          imageUrl |-> <<0, calls[id].style>>]} :
              Step(Settle(Cur, Resolved(Cur, id, data)))

\* The first round of a session: the start button, the content, and the
\* events of the round in play (input, the wrong-guess timeout, the tick).
AnyConceptNext ==
    \/ OnStartClick
    \/ ProviderResolvesAny
    \/ OnInput
    \/ LockTimeout
    \/ Tick

AnyConceptSpec == Init /\ [][AnyConceptNext]_vars

\* ------------------------------------------- an input event during a tick
\* The interval callback only queues its update of timeLeft; the render
\* comes in a later task.  An input event that the browser runs in between
\* is rendered at the end of its handler, and a React that renders every
\* queued update with it produces one render with the new guess and the new
\* timeLeft, followed by the effects of that render.
TickWithInput ==
    /\ timerRef
    /\ timeLeft' = timeLeft - 1
    /\ \E rawValue \in RawValues :
          \E c \in {Cur} :
             \E r \in {[HandleInput(c, rawValue) EXCEPT !.timeLeft = @ - 1]} :
                Step(Settle(c, r))

BatchNext ==
    \/ Next
    \/ TickWithInput

BatchSpec == Init /\ [][BatchNext]_vars

\* ================================================================== claims
SlotEmpty == prefetchedGameData = <<>> /\ nextGamePromiseRef = 0

\* Every variable of the program (all but the log of the last step).
ProgramState ==
    <<gameStatus, imageUrl, imageStyle, answer, explanation, guessValue,
      isWrongGuess, timeLeft, error, loadingMessage, score, level,
      pastConcepts, prefetchedGameData, nextGamePromiseRef, roundIdRef,
      timerRef, calls, callCount, lockTimers, chatLoading, chatInFlight>>

\* The last step was a call of startNewGame / handleResetGame.
StartCalled ==
    log # <<>> /\ log[1].type = "call" /\ log[1].op = "startNewGame"
ResetCalled ==
    log # <<>> /\ log[1].type = "call" /\ log[1].op = "handleResetGame"

\* The entries of a log of the given type.
Entries(lg, type) == SelectSeq(lg, LAMBDA e : e.type = type)
Notified(lg, kind) ==
    SelectSeq(lg, LAMBDA e : e.type = "notify" /\ e.kind = kind)

\* ---- C1
RoundFields ==
    <<gameStatus, answer, explanation, imageUrl, timeLeft, pastConcepts, error>>

\* C1: a provider completion (success or failure) awaited by a startNewGame
\* call whose roundId is no longer the current one changes none of status,
\* answer, explanation, imageUrl, timeLeft, pastConcepts, error; and every
\* commit is made under the current roundId.
C1_StaleCompletionDiscarded ==
    [][/\ \A id \in DOMAIN calls :
            (/\ id \notin DOMAIN calls'
             /\ calls[id].awaiter # 0
             /\ calls[id].awaiter # roundIdRef)
            => UNCHANGED RoundFields
       /\ \A i \in 1..Len(log') :
            log'[i].type = "commit" => log'[i].roundId = roundIdRef']_vars

\* A successful result landed for an abandoned round while a later round
\* was loading.
C1_Witness ==
    /\ gameStatus = LOADING
    /\ \E i \in 1..Len(log) :
          /\ log[i].type = "settled" /\ log[i].ok
          /\ log[i].awaiter # 0 /\ log[i].awaiter # roundIdRef

\* ---- C2
\* C2 (as claimed): startNewGame called while status is Loading changes no
\* state at all, roundId included.
C2_StartWhileLoadingChangesNothing ==
    [][(gameStatus = LOADING /\ StartCalled') => UNCHANGED ProgramState]_vars

\* ---- C3
ResetClears ==
    /\ gameStatus' = IDLE /\ score' = 0 /\ level' = 1
    /\ pastConcepts' = <<>>
    /\ answer' = <<>> /\ explanation' = "" /\ imageUrl' = <<>>
    /\ guessValue' = <<>> /\ error' = <<>>
    /\ isWrongGuess' = FALSE
    /\ timerRef' = FALSE
    /\ roundIdRef' > roundIdRef

\* C3 (as claimed): after handleResetGame everything is cleared and the
\* prefetch slot is empty.
C3_ResetClearsSlotToo ==
    [][ResetCalled' => (ResetClears /\ SlotEmpty')]_vars

\* C3 (amended): after handleResetGame, called in any status, status is
\* Idle, score 0, level 1, pastConcepts empty, answer / explanation /
\* imageUrl / guess / error cleared, the wrong-guess flag false, the timer
\* disarmed and roundId greater than before; the prefetch slot is left as
\* it was.
C3_ResetClearsAllButSlot ==
    [][ResetCalled' =>
         (ResetClears /\ UNCHANGED <<prefetchedGameData, nextGamePromiseRef>>)]_vars

\* A reset of a session with a score, whose prefetch survives it.
C3_Witness ==
    /\ ResetCalled /\ log[1].status = WON
    /\ nextGamePromiseRef # 0

\* ---- C4
\* C4: a style change removes whatever the slot held (pending handle or
\* ready content; the slot then holds at most a call issued after the
\* change); a provider completion whose handle is not in the slot leaves
\* the slot as it is; the style cannot change while a round is loading;
\* and every content committed was generated for the style now selected.
C4_StyleChangeInvalidatesPrefetch ==
    [][/\ imageStyle' # imageStyle =>
            /\ prefetchedGameData' = <<>>
            /\ nextGamePromiseRef' = 0 \/ nextGamePromiseRef' > callCount
       /\ \A id \in DOMAIN calls :
            (id \notin DOMAIN calls' /\ id # nextGamePromiseRef)
            => UNCHANGED <<prefetchedGameData, nextGamePromiseRef>>
       /\ gameStatus = LOADING => imageStyle' = imageStyle
       /\ \A i \in 1..Len(log') :
            log'[i].type = "commit" => log'[i].data.imageUrl[2] = imageStyle']_vars

\* A style change found the slot occupied and emptied it.
C4_Witness ==
    \E i \in 1..Len(log) : log[i].type = "slot" /\ log[i].kind = "invalidated"

\* ---- C5
\* C5: when the provider call awaited by the current round fails, status
\* becomes Idle, error holds a non-empty message and the slot is empty; a
\* startNewGame that follows (error still shown) issues a fresh provider
\* call.
C5_LiveFailureReturnsToIdle ==
    [][/\ \A id \in DOMAIN calls :
            (/\ id \notin DOMAIN calls'
             /\ calls[id].awaiter = roundIdRef
             /\ Entries(log', "settled")[1].ok = FALSE)
            => (/\ gameStatus' = IDLE
                /\ error' # <<>> /\ error'[1] # ""
                /\ SlotEmpty')
       /\ (error # <<>> /\ StartCalled') =>
            (/\ callCount' = callCount + 1
             /\ calls'[callCount'].awaiter = roundIdRef'
             /\ calls'[callCount'].prefetch = FALSE)]_vars

\* The failure of the live fetch has just been shown.
C5_Witness ==
    /\ gameStatus = IDLE /\ error # <<>>
    /\ \E i \in 1..Len(log) :
          log[i].type = "settled" /\ ~log[i].ok /\ log[i].awaiter = roundIdRef

C7_ContentResolutionOrder ==
    [][(gameStatus # LOADING /\ StartCalled') =>
         IF prefetchedGameData # <<>>
         THEN /\ callCount' = callCount
              /\ calls' = calls
              /\ SlotEmpty'
              /\ gameStatus' = PLAYING
              /\ answer' = prefetchedGameData[1].concept
              /\ imageUrl' = prefetchedGameData[1].imageUrl
         ELSE IF nextGamePromiseRef # 0
         THEN /\ callCount' = callCount
              /\ SlotEmpty'
              /\ gameStatus' = LOADING
              /\ DOMAIN calls' = DOMAIN calls
              /\ calls'[nextGamePromiseRef].awaiter = roundIdRef'
         ELSE /\ callCount' = callCount + 1
              /\ SlotEmpty'
              /\ gameStatus' = LOADING
              /\ calls'[callCount'] =
                   [style |-> imageStyle, awaiter |-> roundIdRef', prefetch |-> FALSE]
              /\ Len(Entries(log', "provider")) = 1
              /\ Entries(log', "provider")[1].excluded = pastConcepts]_vars

\* A round started from ready prefetched content.
C7_Witness ==
    /\ StartCalled
    /\ \E i \in 1..Len(log) : log[i].type = "slot" /\ log[i].kind = "ready"

\* ---- C8
\* C8: when the guess of a playing round becomes a full-length match of the
\* answer, status becomes Won, the timer is disarmed, score grows by
\* exactly 1, level is floor(score / 5) + 1, a notification with the answer
\* and the explanation is handed to the sink, and the prefetch of the next
\* round is issued and stored in the slot.
C8_WinPath ==
    [][(/\ gameStatus = PLAYING
        /\ guessValue' # guessValue
        /\ Len(guessValue') = Len(StripWhitespace(answer))
        /\ GuessMatches(guessValue', StripWhitespace(answer)))
       => (/\ gameStatus' = WON
           /\ timerRef' = FALSE
           /\ score' = score + 1
           /\ level' = (score' \div 5) + 1
           /\ \E i \in 1..Len(log') :
                 /\ log'[i].type = "notify"
                 /\ log'[i].answer = answer
                 /\ log'[i].explanation = explanation
           /\ Len(Entries(log', "provider")) = 1
           /\ Entries(log', "provider")[1].prefetch
           /\ nextGamePromiseRef' = callCount'
           /\ callCount' = callCount + 1)]_vars

\* A round has just been won.
C8_Witness ==
    /\ gameStatus = WON /\ score = 1
    /\ Len(Notified(log, "guessed")) = 1

\* ---- C9
\* C9: the tick that takes timeLeft to 0 in a playing round makes status
\* Lost, disarms the timer, hands the sink one notification with the answer
\* and the explanation and issues the prefetch of the next round; no other
\* step runs the timeout path; and, the timer ticking for as long as it is
\* armed, a playing round does not stay in Playing forever.
C9_TimeoutPath ==
    /\ [][/\ (gameStatus = PLAYING /\ timeLeft = 1 /\ timeLeft' = 0)
             => (/\ gameStatus' = LOST
                 /\ timerRef' = FALSE
                 /\ Len(Notified(log', "time-up")) = 1
                 /\ Notified(log', "time-up")[1].answer = answer
                 /\ Notified(log', "time-up")[1].explanation = explanation
                 /\ Len(Entries(log', "provider")) = 1
                 /\ Entries(log', "provider")[1].prefetch
                 /\ nextGamePromiseRef' = callCount')
          /\ Len(Notified(log', "time-up")) > 0
             => (gameStatus = PLAYING /\ timeLeft = 1 /\ timeLeft' = 0)]_vars
    /\ (gameStatus = PLAYING /\ callCount < MaxCalls) ~> (gameStatus # PLAYING)

\* A round has just been lost on time.
C9_Witness ==
    /\ gameStatus = LOST /\ timeLeft = 0
    /\ Len(Notified(log, "time-up")) = 1

\* ---- C10
\* The guess equals the answer with its whitespace removed, letter case
\* ignored.
SameLetter(x, y) ==
    \/ x = y
    \/ {x, y} = {"a", "A"}
    \/ {x, y} = {"b", "B"}
EqualsIgnoringCaseAndSpace(guess, ans) ==
    LET bare == SelectSeq(ans, LAMBDA ch : ch # " ")
    IN /\ Len(guess) = Len(bare)
       /\ \A i \in 1..Len(guess) : SameLetter(guess[i], bare[i])

\* C10: when an input changes the guess of a playing round, the win path
\* runs if and only if the new guess equals the answer with whitespace
\* removed, case ignored; a new guess of that length that differs runs the
\* wrong-guess path; a shorter one runs neither.
C10_GuessEvaluation ==
    [][(gameStatus = PLAYING /\ guessValue' # guessValue /\ guessValue' # <<>>)
       => LET full == Len(guessValue') = Len(StripWhitespace(answer))
              won == gameStatus' = WON /\ score' = score + 1
              wrong == isWrongGuess' /\ lockTimers' = lockTimers + 1
          IN /\ won <=> EqualsIgnoringCaseAndSpace(guessValue', answer)
             /\ wrong <=> (full /\ ~EqualsIgnoringCaseAndSpace(guessValue', answer))
             /\ ~won => (gameStatus' = PLAYING /\ score' = score)
             /\ ~wrong => (isWrongGuess' = isWrongGuess /\ lockTimers' = lockTimers)]_vars

\* "A b" was won by a guess that differs from "Ab" in letter case.
C10_Witness ==
    /\ gameStatus = WON
    /\ answer = <<"A", " ", "b">>
    /\ guessValue \in {<<"a", "B">>, <<"a", "b">>}

\* ---- C11
\* The last step was an input event of the hidden input (handleInput).
InputCalled ==
    log # <<>> /\ log[1].type = "call" /\ log[1].op = "handleInput"

\* C11: an input event that arrives while status is not Playing or while
\* the wrong-guess flag is set leaves the guess as it was.
C11_RejectedInputKeepsGuess ==
    [][(InputCalled' /\ (gameStatus # PLAYING \/ isWrongGuess))
         => guessValue' = guessValue]_vars

\* An input event arrived after the round was won and the winning guess is
\* still in place.
C11_Witness ==
    /\ InputCalled /\ log[1].status = WON
    /\ gameStatus = WON /\ guessValue # <<>>

\* ---- C12
\* C12: in every reachable state the guess holds only letters and digits
\* and is no longer than the answer with its whitespace removed.
C12_GuessWithinAnswer ==
    /\ \A i \in 1..Len(guessValue) :
          guessValue[i] \in UpperCase \cup LowerCase \cup Digits
    /\ Len(guessValue) <= Len(StripWhitespace(answer))

\* The input event just handled was accepted and left a guess that fills
\* the length of the answer "A b" without its space.
C12_Witness ==
    /\ InputCalled /\ log[1].status = PLAYING /\ ~log[1].locked
    /\ answer = <<"A", " ", "b">>
    /\ Len(guessValue) = 2

\* ---- C13
\* The step is the expiry of a wrong-guess timer.
LockTimerFires == lockTimers' < lockTimers

\* C13 (as claimed): a full-length guess that does not match sets the
\* wrong-guess flag and arms its timer; while the flag is set no input
\* changes the guess, and the flag and the guess stay as they are until the
\* timer armed by that guess fires (timers of equal delay fire in the order
\* they were armed, so it is the last one pending); when it fires the guess
\* becomes empty and the flag false, and no new wrong-guess timer is armed.
C13_WrongGuessLock ==
    [][/\ (/\ InputCalled' /\ gameStatus = PLAYING /\ ~isWrongGuess
           /\ Len(guessValue') = Len(StripWhitespace(answer))
           /\ ~EqualsIgnoringCaseAndSpace(guessValue', answer))
          => (isWrongGuess' /\ lockTimers' = lockTimers + 1)
       /\ (isWrongGuess /\ InputCalled') => UNCHANGED <<guessValue, isWrongGuess>>
       /\ (isWrongGuess /\ LockTimerFires /\ lockTimers > 1)
          => UNCHANGED <<guessValue, isWrongGuess>>
       /\ (isWrongGuess /\ LockTimerFires /\ lockTimers = 1)
          => (/\ guessValue' = <<>> /\ ~isWrongGuess'
              /\ lockTimers' = 0 /\ gameStatus' = gameStatus)]_vars

WinStep == gameStatus = PLAYING /\ gameStatus' = WON

\* The positions in lg of the notifications of the given kind.
NotifiedAt(lg, kind) ==
    {i \in 1..Len(lg) : lg[i].type = "notify" /\ lg[i].kind = kind}

\* C15: a win raises the level exactly when the new score is a multiple of
\* 5; then one level-up notification is emitted, before the notification
\* that carries the answer and the explanation; on any other win no
\* level-up notification is emitted.
C15_LevelUpFirst ==
    [][WinStep =>
         LET ups == NotifiedAt(log', "level-up")
             told == {j \in NotifiedAt(log', "guessed") :
                        /\ log'[j].answer = answer
                        /\ log'[j].explanation = explanation}
         IN /\ (level' > level) <=> (score' % 5 = 0)
            /\ Cardinality(told) = 1
            /\ IF level' > level
               THEN /\ Cardinality(ups) = 1
                    /\ \A i \in ups : log'[i].level = level' /\ \A j \in told : i < j
               ELSE ups = {}]_vars

\* The fifth win: the level-up notification is in the log of the step.
C15_Witness ==
    /\ gameStatus = WON
    /\ score = 5
    /\ NotifiedAt(log, "level-up") # {}
    /\ NotifiedAt(log, "guessed") # {}

\* ---- C16
\* The step settles, as rejected, a call that prefetchNextRound issued.
PrefetchFails ==
    /\ log' # <<>>
    /\ log'[1].type = "settled" /\ ~log'[1].ok /\ log'[1].prefetch

\* Everything of the round on screen: all but the slot and the pending calls.
RoundState ==
    <<gameStatus, imageUrl, imageStyle, answer, explanation, guessValue,
      isWrongGuess, timeLeft, error, loadingMessage, score, level,
      pastConcepts, roundIdRef, timerRef, callCount, lockTimers, chatLoading,
      chatInFlight>>

\* C16 (as stated): whenever a call issued by prefetchNextRound fails, the
\* slot is empty afterwards, status, answer, score, error and timer are
\* unchanged (so no error is shown for it).
C16_FailedPrefetchIsolated ==
    [][PrefetchFails =>
         (/\ SlotEmpty'
          /\ UNCHANGED <<gameStatus, answer, score, error, timerRef, timeLeft>>)]_vars

\* C16 (amended): a failed prefetch that no startNewGame is awaiting changes
\* nothing of the round and shows no error; it empties the slot if the slot
\* still holds its handle, and leaves the slot alone otherwise.  A failed
\* prefetch that the current round is awaiting is that round's failed fetch:
\* status Idle, the error shown, the slot empty.  A startNewGame that finds
\* the slot empty issues a fresh provider call.
C16_FailedPrefetchUnlessAwaited ==
    [][/\ (PrefetchFails /\ log'[1].awaiter = 0) =>
            (/\ UNCHANGED RoundState
             /\ prefetchedGameData' = prefetchedGameData
             /\ nextGamePromiseRef' =
                  IF nextGamePromiseRef = log'[1].id THEN 0 ELSE nextGamePromiseRef
             /\ nextGamePromiseRef = log'[1].id => SlotEmpty')
       /\ (PrefetchFails /\ log'[1].awaiter = roundIdRef) =>
            (gameStatus' = IDLE /\ error' # <<>> /\ SlotEmpty')
       /\ (StartCalled' /\ gameStatus # LOADING /\ SlotEmpty) =>
            (/\ callCount' = callCount + 1
             /\ nextGamePromiseRef' = 0
             /\ calls'[callCount'].awaiter = roundIdRef'
             /\ ~calls'[callCount'].prefetch)]_vars

\* "Next" after the prefetch for the fifth round has failed unawaited: the
\* round is fetched with a fresh provider call.
C16_Witness ==
    /\ StartCalled
    /\ roundIdRef = 5 /\ score = 4 /\ imageStyle = DefaultStyle
    /\ 5 \notin DOMAIN calls
    /\ callCount = 6 /\ ~calls[6].prefetch /\ calls[6].awaiter = 5

\* ---- C17
\* The positions in lg of the calls of prefetchNextRound.
PrefetchCalledAt(lg) ==
    {i \in 1..Len(lg) : lg[i].type = "call" /\ lg[i].op = "prefetchNextRound"}

IsProviderCall(lg, i) == i <= Len(lg) /\ lg[i].type = "provider"

\* C17: a call of prefetchNextRound that finds a pending handle or ready
\* content in the slot does nothing; any other call issues exactly one
\* provider call, as a prefetch, and leaves its handle in the slot.  When a
\* call whose handle the slot holds succeeds, the slot holds its content.
C17_PrefetchOnlyIntoEmptySlot ==
    [][/\ \A i \in PrefetchCalledAt(log') :
            IF log'[i].handle # 0 \/ log'[i].ready # <<>>
            THEN ~IsProviderCall(log', i + 1)
            ELSE /\ IsProviderCall(log', i + 1)
                 /\ log'[i + 1].prefetch
                 /\ ~IsProviderCall(log', i + 2)
                 /\ nextGamePromiseRef' = log'[i + 1].id
                 /\ log'[i + 1].id \in DOMAIN calls' \ DOMAIN calls
       /\ (PrefetchCalledAt(log') = {} /\ ~StartCalled') => callCount' = callCount
       /\ \A id \in DOMAIN calls :
            (/\ id = nextGamePromiseRef
             /\ id \notin DOMAIN calls'
             /\ log'[1].type = "settled" /\ log'[1].ok)
            => (/\ prefetchedGameData' = <<log'[1].data>>
                /\ nextGamePromiseRef' = id)]_vars

\* prefetchNextRound called while the slot holds the content of an earlier
\* prefetch that succeeded: the content is still there.
C17_Witness ==
    /\ \E i \in PrefetchCalledAt(log) : log[i].handle # 0 /\ log[i].ready # <<>>
    /\ prefetchedGameData # <<>>

\* ---- C18
\* Every variable of the program but roundIdRef.
AllButRoundId ==
    <<gameStatus, imageUrl, imageStyle, answer, explanation, guessValue,
      isWrongGuess, timeLeft, error, loadingMessage, score, level,
      pastConcepts, prefetchedGameData, nextGamePromiseRef, timerRef, calls,
      callCount, lockTimers, chatLoading, chatInFlight>>

ResetTwice == ResetCalled /\ ResetCalled'

\* C18 (as stated): a handleResetGame that follows a handleResetGame changes
\* nothing but roundIdRef, and the state is status Idle, score 0, level 1,
\* pastConcepts empty, slot empty.
C18_ResetTwiceSlotEmpty ==
    [][ResetTwice =>
         (/\ UNCHANGED AllButRoundId
          /\ gameStatus' = IDLE /\ score' = 0 /\ level' = 1
          /\ pastConcepts' = <<>>
          /\ SlotEmpty')]_vars

\* C18 (amended): a handleResetGame that follows a handleResetGame changes
\* nothing but roundIdRef, which it increments; the state is status Idle,
\* score 0, level 1, pastConcepts empty, and the slot as the first call left
\* it, which is as it was before.
C18_ResetTwiceSameState ==
    [][ResetTwice =>
         (/\ UNCHANGED AllButRoundId
          /\ roundIdRef' = roundIdRef + 1
          /\ gameStatus' = IDLE /\ score' = 0 /\ level' = 1
          /\ pastConcepts' = <<>>)]_vars

\* Start, a win (provider call 2 is the prefetch), and two resets: the
\* second reset, with the prefetch still pending in the slot.
C18_Witness ==
    /\ ResetCalled /\ log[1].status = IDLE
    /\ roundIdRef = 3
    /\ nextGamePromiseRef = 2 /\ 2 \in DOMAIN calls

\* ---- C19
\* The statuses of a step in order: the one it starts in, then every status
\* it sets.
RECURSIVE StatusesSet(_)
StatusesSet(lg) ==
    IF lg = <<>> THEN <<>>
    ELSE IF Head(lg).type = "status"
         THEN <<Head(lg).to>> \o StatusesSet(Tail(lg))
         ELSE StatusesSet(Tail(lg))

StatusPath == <<gameStatus>> \o StatusesSet(log')

FetchFailed == \E i \in 1..Len(log') : log'[i].type = "settled" /\ ~log'[i].ok

AllowedChange(a, b) ==
    \/ a = IDLE /\ b = LOADING
    \/ a = LOADING /\ b = PLAYING
    \/ a = LOADING /\ b = IDLE /\ FetchFailed
    \/ a = PLAYING /\ b = WON
    \/ a = PLAYING /\ b = LOST
    \/ a \in {WON, LOST} /\ b = LOADING
    \/ b = IDLE /\ ResetCalled'

\* C19: in the page, every change of status is Idle to Loading, Loading to
\* Playing, Loading to Idle on a failed fetch, Playing to Won, Playing to
\* Lost, Won or Lost to Loading, or anything to Idle by a reset; the status
\* after a step is the last one the step set.
C19_StatusChanges ==
    [][\A path \in {StatusPath} :
          /\ \A k \in 1..(Len(path) - 1) :
                \/ path[k + 1] = path[k]
                \/ AllowedChange(path[k], path[k + 1])
          /\ gameStatus' = path[Len(path)]]_vars

\* "Next" on a won round with ready content: Won to Loading to Playing in
\* one step.
C19_Witness ==
    /\ StartCalled /\ log[1].status = WON
    /\ StatusesSet(log) = <<LOADING, PLAYING>>
    /\ gameStatus = PLAYING

\* ---- C20
\* C20: every event for the AI that a step hands to the NotificationSink is
\* forwarded into the AI conversation.
C20_EveryAIEventForwarded ==
    [][\A i \in 1..Len(log') :
         (log'[i].type = "notify" /\ log'[i].forAI) => log'[i].forwarded]_vars

\* ---- C21
ChatFailed == log # <<>> /\ log[1].type = "chat" /\ ~log[1].ok

\* Everything but the two variables of ChatPanel.
AppState ==
    <<gameStatus, imageUrl, imageStyle, answer, explanation, guessValue,
      isWrongGuess, timeLeft, error, loadingMessage, score, level,
      pastConcepts, prefetchedGameData, nextGamePromiseRef, roundIdRef,
      timerRef, calls, callCount, lockTimers>>

\* C21: when the AI call of a notification rejects, nothing of the round
\* changes, and the step ends in the state it would have ended in had the
\* call succeeded: the chat is free for the next message.
C21_FailedDispatchHarmless ==
    [][ChatFailed' =>
         (/\ UNCHANGED AppState
          /\ chatLoading' = FALSE
          /\ chatInFlight' = chatInFlight - 1)]_vars

\* The dispatch of the kickoff event has failed in a round being played.
C21_Witness ==
    /\ ChatFailed
    /\ gameStatus = PLAYING
    /\ timerRef

\* ---- C22
\* C22: roundIdRef never decreases; a call of startNewGame or of
\* handleResetGame leaves it greater than it was, and no other step changes
\* it.
C22_RoundIdGrows ==
    [][/\ roundIdRef' >= roundIdRef
       /\ (StartCalled' \/ ResetCalled') => roundIdRef' > roundIdRef
       /\ roundIdRef' # roundIdRef => (StartCalled' \/ ResetCalled')]_vars

\* The third roundId, allocated by startNewGame on a won round.
C22_Witness ==
    /\ StartCalled /\ log[1].status = WON
    /\ roundIdRef = 3

\* ---- C23
\* C23: whenever status is Loading, a provider call is outstanding that the
\* startNewGame call of the current roundId awaits.
C23_LoadingHasLiveFetch ==
    gameStatus = LOADING =>
        \E id \in DOMAIN calls : calls[id].awaiter = roundIdRef

\* ---- C24
\* C24: if every provider call completes, a state with status Loading is
\* followed by a state with status Playing or Idle.
C24_LoadingEnds ==
    (gameStatus = LOADING) ~> (gameStatus = PLAYING \/ gameStatus = IDLE)

\* ---- C25
\* C25: when a lock timeout fires that was set in a round with another
\* roundId than the current one, guess and wrong-guess flag stay as they
\* are.
C25_StaleLockTimerHarmless ==
    [][(LockTimerFires /\ Head(lockRounds) # roundIdRef)
         => UNCHANGED <<guessValue, isWrongGuess>>]_vars

\* ---- C26
\* The positions in lg of the entries of the given type.
At(lg, type) == {i \in 1..Len(lg) : lg[i].type = type}

\* C26: an accepted startNewGame sets status Loading, then clears guess,
\* wrong-guess flag, imageUrl and error, and only then inspects the slot and
\* issues a provider call; guess, flag and error are empty after it, and
\* imageUrl is empty for as long as a provider call that the current round
\* awaits is outstanding.
C26_ClearedBeforeFetch ==
    /\ [](\A id \in DOMAIN calls :
            calls[id].awaiter = roundIdRef => imageUrl = <<>>)
    /\ [][(StartCalled' /\ gameStatus # LOADING) =>
            (/\ \E s \in At(log', "status") : \E c \in At(log', "clear") :
                  /\ log'[s].to = LOADING
                  /\ s < c
                  /\ \A p \in At(log', "slot") \cup At(log', "provider") : c < p
             /\ At(log', "slot") # {}
             /\ guessValue' = <<>> /\ ~isWrongGuess' /\ error' = <<>>
             /\ gameStatus' = LOADING => imageUrl' = <<>>)]_vars

\* startNewGame on a won round, its image still shown: the image is gone
\* while the provider call the new round awaits is outstanding.
C26_Witness ==
    /\ StartCalled /\ log[1].status = WON
    /\ gameStatus = LOADING /\ imageUrl = <<>>
    /\ \E id \in DOMAIN calls : calls[id].awaiter = roundIdRef

\* ---- C27
\* The outstanding provider calls that some startNewGame call awaits, and
\* those that only prefetchNextRound waits for.
Foreground == {id \in DOMAIN calls : calls[id].awaiter # 0}
Background == {id \in DOMAIN calls : calls[id].awaiter = 0}

\* C27: at most one foreground and at most one background provider call are
\* outstanding.
C27_OneFetchOfEachKind ==
    /\ Cardinality(Foreground) <= 1
    /\ Cardinality(Background) <= 1

\* ---- C28
\* C28: whenever status is Idle, answer, explanation and imageUrl are empty.
C28_IdleHasNoContent ==
    gameStatus = IDLE =>
        (answer = <<>> /\ explanation = "" /\ imageUrl = <<>>)

\* ------------------------------------------------------------------- C29
\* Teardown of the component: the cleanup of the mount effect cancels the
\* timer, then the cleanup of the timer effect runs.
Unmount(s) == CleanupTimer(CleanupTimer(s))

\* timeLeft is set by the commit of a round and by a reset; any other change
\* of it is the interval callback.
TickFires ==
    /\ timeLeft' # timeLeft
    /\ At(log', "commit") = {}
    /\ \A i \in At(log', "call") : log'[i].op # "handleResetGame"

\* C29: at most one countdown interval is live at any time, the timer
\* reference holds it, and it is live only while status is Playing; a tick
\* comes from the live interval while Playing and takes exactly 1 from
\* timeLeft; every step that leaves Playing leaves no interval live; and
\* from every state, tearing the component down leaves no interval live.
C29_OneTickStream ==
    /\ [](/\ intervals <= 1
          /\ timerRef <=> intervals = 1
          /\ timerRef => gameStatus = PLAYING
          /\ Unmount(Cur).intervals = 0
          /\ ~Unmount(Cur).timerRef)
    /\ [][/\ TickFires => /\ timerRef /\ gameStatus = PLAYING
                          /\ timeLeft' = timeLeft - 1
          /\ (gameStatus = PLAYING /\ gameStatus' # PLAYING)
             => (intervals' = 0 /\ ~timerRef')]_vars

\* The countdown has run out: the last tick ended the round and nothing is
\* left armed.
C29_Witness ==
    /\ gameStatus = LOST /\ timeLeft = 0
    /\ ~timerRef /\ intervals = 0

\* ------------------------------------------------------------------- C30
\* The concepts of the list lst.
Elements(lst) == {lst[k] : k \in 1..Len(lst)}

\* C30: every provider call made by prefetchNextRound is given a list that
\* holds every concept of pastConcepts and the answer of the round that has
\* just ended; every provider call made by startNewGame itself is given
\* pastConcepts, element for element, and nothing else.
C30_ExclusionLists ==
    [][\A i \in At(log', "provider") :
          IF log'[i].prefetch
          THEN /\ Elements(pastConcepts') \subseteq Elements(log'[i].excluded)
               /\ answer' # <<>> => answer' \in Elements(log'[i].excluded)
          ELSE /\ log'[i].excluded = pastConcepts
               /\ log'[i].excluded = pastConcepts']_vars

\* The prefetch of the fifth round failed and the player asked for the next
\* round: startNewGame has just made its own call, with four concepts to
\* exclude, after the prefetch had made its call with these and the answer.
C30_Witness ==
    \E i \in At(log, "provider") :
        /\ ~log[i].prefetch
        /\ Len(log[i].excluded) = 4
        /\ gameStatus = LOADING

\* ------------------------------------------------------------------- C31
\* The positions in lg of the events of the given kind.
NotifiedPos(lg, kind) ==
    {i \in At(lg, "notify") : lg[i].kind = kind}

\* The positions in lg where startNewGame resolves its content: the slot is
\* inspected, or a provider call of its own is made.
ResolutionAt(lg) ==
    {i \in At(lg, "slot") : lg[i].kind \in {"ready", "pending", "empty"}}
    \cup {i \in At(lg, "provider") : ~lg[i].prefetch}

\* C31: a startNewGame call that is accepted sends the "thinking" event, and
\* sends it before it inspects the slot or calls the provider; the kickoff
\* event is sent only in a step that commits content under the current
\* round identity, after the commit and with the concept committed; a step
\* in which a fetch fails, or whose result is discarded as stale, sends no
\* kickoff event.
C31_NotificationOrder ==
    [][/\ (StartCalled' /\ gameStatus # LOADING)
            => /\ NotifiedPos(log', "thinking") # {}
               /\ ResolutionAt(log') # {}
       /\ \A i \in ResolutionAt(log') :
             \E j \in NotifiedPos(log', "thinking") : j < i
       /\ \A j \in NotifiedPos(log', "kickoff") :
             \E i \in At(log', "commit") :
                /\ i < j
                /\ log'[i].roundId = roundIdRef'
                /\ log'[i].data.concept = log'[j].answer
                /\ answer' = log'[j].answer
       /\ (At(log', "commit") = {} /\ At(log', "settled") # {})
            => NotifiedPos(log', "kickoff") = {}
       /\ Cardinality(NotifiedPos(log', "kickoff")) = Cardinality(At(log', "commit"))]_vars

\* A result came back for a round that had been given up: nothing was
\* committed and no kickoff event was sent.
C31_Witness ==
    /\ \E i \in At(log, "settled") :
          log[i].ok /\ log[i].awaiter # 0 /\ log[i].awaiter # roundIdRef
    /\ At(log, "commit") = {}
    /\ NotifiedPos(log, "kickoff") = {}

\* ------------------------------------------------------------------- C32
\* The step set status Playing.
ReachedPlaying == \E i \in At(log', "status") : log'[i].to = PLAYING

\* C32: a step either leaves pastConcepts as it is, or is a reset and leaves
\* it empty, or commits one round and appends the concept committed; a round
\* reaches Playing exactly in the steps that commit; a step that settles a
\* call for a round that is no longer current leaves pastConcepts as it is.
C32_PastConceptsAppendOnly ==
    [][/\ \/ /\ At(log', "commit") = {}
             /\ pastConcepts' = pastConcepts
          \/ /\ ResetCalled'
             /\ pastConcepts' = <<>>
          \/ /\ Cardinality(At(log', "commit")) = 1
             /\ \A i \in At(log', "commit") :
                   pastConcepts' = Append(pastConcepts, log'[i].data.concept)
       /\ ResetCalled' => At(log', "commit") = {}
       /\ ReachedPlaying <=> At(log', "commit") # {}
       /\ \A i \in At(log', "settled") :
             (log'[i].awaiter # 0 /\ log'[i].awaiter # roundIdRef)
             => pastConcepts' = pastConcepts]_vars

\* A second round has just been committed: two concepts, the last one the
\* answer of the round.
C32_Witness ==
    /\ At(log, "commit") # {}
    /\ Len(pastConcepts) = 2
    /\ pastConcepts[2] = answer
    /\ gameStatus = PLAYING

\* ------------------------------------------------------------------- C33
\* What the player can leave in the hidden input: any string.
InputStrings ==
    Strings(UpperCase \cup LowerCase \cup Digits \cup Whitespace \cup Punctuation,
            MaxConceptLen)

\* An input event with this value, in state c, ends with the round won.
WinsBy(c, rawValue) ==
    Settle(c, HandleInput(c, rawValue)).gameStatus = WON

\* C33: whatever concept the provider returned for the round, whenever the
\* round is in play and the guess is not locked there is an input value that
\* handleInput accepts and that makes the guess evaluation take the win path.
C33_EveryRoundWinnable ==
    (gameStatus = PLAYING /\ ~isWrongGuess)
        => \E rawValue \in InputStrings : WinsBy(Cur, rawValue)

\* ------------------------------------------------------------------- C34
\* The step ran the timeout path / the win path.
TimeoutPathRan == NotifiedPos(log', "time-up") # {}
WinPathRan == NotifiedPos(log', "correct") # {}

\* C34: no step runs both the win path and the timeout path; a step that
\* runs the timeout path starts in Playing, ends in Lost and leaves the
\* score as it is; a step that runs the win path starts in Playing and ends
\* in Won; and once a round is Won or Lost neither path runs again until a
\* new round is committed.
C34_WinOrTimeout ==
    [][/\ ~(TimeoutPathRan /\ WinPathRan)
       /\ TimeoutPathRan
            => (gameStatus = PLAYING /\ gameStatus' = LOST /\ score' = score)
       /\ WinPathRan
            => (gameStatus = PLAYING /\ gameStatus' = WON /\ score' = score + 1)
       /\ (score' # score /\ ~ResetCalled') => WinPathRan
       /\ (gameStatus \in {WON, LOST} /\ gameStatus' = PLAYING)
            => At(log', "commit") # {}]_vars

\* ------------------------------------------------------------------- C35
\* C35: whenever status is Loading or Playing the slot holds neither a
\* handle nor content; a step that fills the empty slot ends in Won or Lost;
\* and an accepted startNewGame leaves the slot empty.
C35_SlotEmptyWhileRoundRuns ==
    /\ []((gameStatus = LOADING \/ gameStatus = PLAYING) => SlotEmpty)
    /\ [][/\ (SlotEmpty /\ ~SlotEmpty')
               => (gameStatus' = WON \/ gameStatus' = LOST)
          /\ (StartCalled' /\ gameStatus # LOADING) => SlotEmpty']_vars

\* The next round was started while its prefetch was pending: the round is
\* loading, waits for that call, and the slot no longer holds it.
C35_Witness ==
    /\ gameStatus = LOADING
    /\ SlotEmpty
    /\ \E i \in At(log, "slot") : log[i].kind = "pending"
    /\ \E id \in DOMAIN calls : calls[id].prefetch /\ calls[id].awaiter = roundIdRef

\* ------------------------------------------------------------------- C36
\* C36: no step that starts in Loading or Playing changes the style; a round
\* is committed either by the startNewGame that began it or by a step that
\* starts in Loading; and from Loading a step that keeps the round identity
\* stays in Loading unless it commits the round or reports its failure.  So
\* from the startNewGame of a round to its commit the style is the same.
C36_StyleFixedWhileRoundRuns ==
    [][/\ (gameStatus = LOADING \/ gameStatus = PLAYING)
             => imageStyle' = imageStyle
       /\ At(log', "commit") # {}
             => /\ imageStyle' = imageStyle
                /\ StartCalled' \/ gameStatus = LOADING
                /\ \A i \in At(log', "commit") :
                      log'[i].data.imageUrl[2] = imageStyle
       /\ (gameStatus = LOADING /\ roundIdRef' = roundIdRef)
             => \/ gameStatus' = LOADING
                \/ At(log', "commit") # {}
                \/ gameStatus' = IDLE /\ FetchFailed
       /\ roundIdRef' # roundIdRef => (StartCalled' \/ ResetCalled')]_vars

\* A round was committed under a style chosen before it was started.
C36_Witness ==
    /\ At(log, "commit") # {}
    /\ ~StartCalled
    /\ imageStyle # DefaultStyle
    /\ imageUrl[2] = imageStyle
    /\ gameStatus = PLAYING

\* ------------------------------------------------------------------- C37
\* C37: timeLeft is always one of 0, 1, ..., ROUND_TIME, and is above 0
\* while the interval is live; a step changes it only by committing a round
\* or resetting the game, which set it to ROUND_TIME, or by one tick of the
\* live interval in status Playing, which takes 1.
C37_TimeLeftRange ==
    /\ [](/\ timeLeft \in 0..ROUND_TIME
          /\ timerRef => timeLeft > 0)
    /\ [][timeLeft' # timeLeft
            => \/ /\ At(log', "commit") # {}
                  /\ timeLeft' = ROUND_TIME
               \/ /\ ResetCalled'
                  /\ timeLeft' = ROUND_TIME
               \/ /\ At(log', "commit") = {} /\ ~ResetCalled'
                  /\ gameStatus = PLAYING /\ timerRef
                  /\ timeLeft' = timeLeft - 1]_vars

\* After a round lost on time the next round has been committed: timeLeft
\* went from 0 back to ROUND_TIME.
C37_Witness ==
    /\ At(log, "commit") # {}
    /\ \E i \in At(log, "settled") : log[i].prefetch
    /\ timeLeft = ROUND_TIME
    /\ score = 0
    /\ Len(pastConcepts) = 2

====
